---- MODULE Spec2Model ----
(***************************************************************************)
(* A model of mergedeep.merge (src/mergedeep/mergedeep.py).                *)
(*                                                                         *)
(* Python objects live in a heap (a sequence of objects, an address is an  *)
(* index), so that identity, in-place mutation and deepcopy are visible.   *)
(* merge is run one loop iteration of _deepmerge at a time on an explicit  *)
(* stack of (dst, src, position) frames.                                   *)
(***************************************************************************)
EXTENDS Integers, Sequences, FiniteSets, TLC

\* Scalars of the inputs are the ints 1..MaxInt (and True).
MaxInt == 2

VARIABLES
    heap,      \* the objects: heap[a] is the object at address a
    stack,     \* the active _deepmerge calls, innermost last
    dest,      \* the address of destination
    srcs,      \* the addresses of *sources
    si,        \* how many sources reduce has handed to _deepmerge
    acc,       \* reduce's accumulator (address)
    pc,        \* "run", "done" (merge returned), "raised" (merge raised)
    err,       \* the exception merge raised
    ret,       \* the address merge returned (0 before it returns)
    out,       \* the value merge returned, as it was on return (a tree)
    strategy,  \* the strategy= argument
    inD,       \* the destination as passed in (a tree)
    inS,       \* the sources as passed in (trees)
    last,      \* the loop iteration just executed
    mutated    \* the caller has mutated a source after the call

vars == <<heap, stack, dest, srcs, si, acc, pc, err, ret, out, strategy, inD, inS, last, mutated>>

----------------------------------------------------------------------------
\* Values.  A value is a record [k, v]: k is the concrete type.  Scalars and
\* tuples are immutable and held inline; a dict, list or set is held by
\* reference ([k |-> "ref", v |-> address]) in the heap, and as the object
\* itself in a tree (a value with no references, used for inputs and for
\* comparing results).

PyInt(n) == [k |-> "int", v |-> n]
\* bool is a subclass of int: True == 1
PyTrue == [k |-> "bool", v |-> 1]
Tuple(es) == [k |-> "tuple", v |-> es]
List(es) == [k |-> "list", v |-> es]
\* class MyList(list): a Sequence subtype
MyList(es) == [k |-> "MyList", v |-> es]
SetOf(S) == [k |-> "set", v |-> S]
Dict(order, items) == [k |-> "dict", v |-> [order |-> order, items |-> items]]
\* collections.OrderedDict: a Mapping, a subclass of dict
OrderedDict(order, items) == [k |-> "OrderedDict", v |-> [order |-> order, items |-> items]]
Ref(a) == [k |-> "ref", v |-> a]
NoVal == [k |-> "none", v |-> 0]

NumTypes == {"int", "bool"}
MappingTypes == {"dict", "OrderedDict"}
ListTypes == {"list", "MyList"}

\* type(x) of a heap value
TypeOf(h, x) == IF x.k = "ref" THEN h[x.v].k ELSE x.k

\* the tree a heap value stands for
RECURSIVE Abs(_, _)
Abs(h, x) ==
    CASE x.k = "ref" ->
            LET o == h[x.v] IN
            IF o.k \in MappingTypes
            THEN [k |-> o.k,
                  v |-> [order |-> o.v.order,
                         items |-> [key \in DOMAIN o.v.items |-> Abs(h, o.v.items[key])]]]
            ELSE IF o.k \in ListTypes
            THEN [k |-> o.k, v |-> [i \in DOMAIN o.v |-> Abs(h, o.v[i])]]
            ELSE o
      [] x.k = "tuple" -> [k |-> "tuple", v |-> [i \in DOMAIN x.v |-> Abs(h, x.v[i])]]
      [] OTHER -> x

\* Python's == on trees
RECURSIVE PyEq(_, _)
PyEq(x, y) ==
    CASE x.k \in NumTypes /\ y.k \in NumTypes -> x.v = y.v
      [] (x.k \in ListTypes /\ y.k \in ListTypes) \/ (x.k = "tuple" /\ y.k = "tuple") ->
            /\ Len(x.v) = Len(y.v)
            /\ \A i \in DOMAIN x.v : PyEq(x.v[i], y.v[i])
      [] x.k = "set" /\ y.k = "set" ->
            /\ \A e \in x.v : \E f \in y.v : PyEq(e, f)
            /\ \A f \in y.v : \E e \in x.v : PyEq(e, f)
      [] x.k \in MappingTypes /\ y.k \in MappingTypes ->
            /\ DOMAIN x.v.items = DOMAIN y.v.items
            /\ \A key \in DOMAIN x.v.items : PyEq(x.v.items[key], y.v.items[key])
            /\ (x.k = "OrderedDict" /\ y.k = "OrderedDict") => x.v.order = y.v.order
      [] OTHER -> FALSE

\* the addresses reachable from a heap value: the mutable objects it owns
RECURSIVE Reach(_, _)
Reach(h, x) ==
    CASE x.k = "ref" ->
            LET o == h[x.v] IN
            {x.v} \cup
            (IF o.k \in MappingTypes
             THEN UNION {Reach(h, o.v.items[key]) : key \in DOMAIN o.v.items}
             ELSE IF o.k \in ListTypes
             THEN UNION {Reach(h, o.v[i]) : i \in DOMAIN o.v}
             ELSE {})
      [] x.k = "tuple" -> UNION {Reach(h, x.v[i]) : i \in DOMAIN x.v}
      [] OTHER -> {}

----------------------------------------------------------------------------
\* copy.copy in the place of copy.deepcopy: a new container around the same items
shallowcopy(h, x) ==
    IF x.k = "ref" THEN [h |-> Append(h, h[x.v]), v |-> Ref(Len(h) + 1)]
    ELSE [h |-> h, v |-> x]

\* copy.deepcopy.  The result is [h |-> the heap with the copies, v |-> the copy].
\* A container is created first and filled with the copies of its items, in
\* order; a scalar is returned as it is; a tuple is rebuilt around the copies
\* of its elements.

RECURSIVE deepcopy(_, _), deepcopySeq(_, _), deepcopyItems(_, _, _)

\* the copies of the elements of a sequence, left to right
deepcopySeq(h, es) ==
    IF es = <<>> THEN [h |-> h, v |-> <<>>]
    ELSE LET c == deepcopy(h, Head(es))
             r == deepcopySeq(c.h, Tail(es))
         IN [h |-> r.h, v |-> <<c.v>> \o r.v]

\* the copies of the values of a dict, in key order
deepcopyItems(h, order, items) ==
    IF order = <<>> THEN [h |-> h, v |-> <<>>]
    ELSE LET c == deepcopy(h, items[Head(order)])
             r == deepcopyItems(c.h, Tail(order), items)
         IN [h |-> r.h, v |-> (Head(order) :> c.v) @@ r.v]

deepcopy(h, x) ==
    CASE x.k = "ref" ->
            LET o == h[x.v]
                a == Len(h) + 1
                h1 == Append(h, o)
            IN
            IF o.k \in MappingTypes
            THEN LET r == deepcopyItems(h1, o.v.order, o.v.items)
                 IN [h |-> [r.h EXCEPT ![a] = [k |-> o.k,
                                               v |-> [order |-> o.v.order, items |-> r.v]]],
                     v |-> Ref(a)]
            ELSE IF o.k \in ListTypes
            THEN LET r == deepcopySeq(h1, o.v)
                 IN [h |-> [r.h EXCEPT ![a] = [k |-> o.k, v |-> r.v]], v |-> Ref(a)]
            ELSE [h |-> h1, v |-> Ref(a)]
      [] x.k = "tuple" ->
            LET r == deepcopySeq(h, x.v) IN [h |-> r.h, v |-> Tuple(r.v)]
      [] OTHER -> [h |-> h, v |-> x]

----------------------------------------------------------------------------
\* The caller's arguments.  alloc puts a tree into the heap, every dict, list
\* and set of it a fresh object: destination and sources share no structure.

RECURSIVE alloc(_, _), allocSeq(_, _), allocItems(_, _, _)

allocSeq(h, ts) ==
    IF ts = <<>> THEN [h |-> h, v |-> <<>>]
    ELSE LET c == alloc(h, Head(ts))
             r == allocSeq(c.h, Tail(ts))
         IN [h |-> r.h, v |-> <<c.v>> \o r.v]

allocItems(h, order, items) ==
    IF order = <<>> THEN [h |-> h, v |-> <<>>]
    ELSE LET c == alloc(h, items[Head(order)])
             r == allocItems(c.h, Tail(order), items)
         IN [h |-> r.h, v |-> (Head(order) :> c.v) @@ r.v]

alloc(h, t) ==
    LET a == Len(h) + 1
        h1 == Append(h, t)
    IN
    CASE t.k \in MappingTypes ->
            LET r == allocItems(h1, t.v.order, t.v.items)
            IN [h |-> [r.h EXCEPT ![a] = [k |-> t.k,
                                          v |-> [order |-> t.v.order, items |-> r.v]]],
                v |-> Ref(a)]
      [] t.k \in ListTypes ->
            LET r == allocSeq(h1, t.v)
            IN [h |-> [r.h EXCEPT ![a] = [k |-> t.k, v |-> r.v]], v |-> Ref(a)]
      [] t.k = "set" -> [h |-> h1, v |-> Ref(a)]
      [] t.k = "tuple" ->
            LET r == allocSeq(h, t.v) IN [h |-> r.h, v |-> Tuple(r.v)]
      [] OTHER -> [h |-> h, v |-> t]

----------------------------------------------------------------------------
\* class Strategy(Enum) and the dispatch table _handle_merge.

Strategy == {"REPLACE", "ADDITIVE", "TYPESAFE", "TYPESAFE_REPLACE", "TYPESAFE_ADDITIVE"}

\* a strategy= argument that is no member of the enum (None, say)
Unregistered == "None"

NoErr == [kind |-> "none", key |-> "", dtype |-> "", stype |-> ""]

\* raise TypeError('destination type: ... differs from source type: ... for key: ...')
TypeMismatch(key, dtype, stype) ==
    [kind |-> "TypeError: types differ", key |-> key, dtype |-> dtype, stype |-> stype]

\* TypeError: 'Strategy' object is not callable
NotCallable == [kind |-> "TypeError: not callable", key |-> "", dtype |-> "", stype |-> ""]

\* destination[key] = value
SetItem(h, d, key, value) ==
    [h EXCEPT ![d].v = [order |-> IF key \in DOMAIN @.items THEN @.order
                                  ELSE Append(@.order, key),
                        items |-> (key :> value) @@ @.items]]

\* The handlers return [h |-> the heap after, err |-> the exception raised or NoErr].

handle_merge_replace(h, d, s, key) ==
    LET c == deepcopy(h, h[s].v.items[key])
    IN [h |-> SetItem(c.h, d, key, c.v), err |-> NoErr]

\* type(...) is list in the place of isinstance(..., list), and so on
handle_merge_additive_exact(h, d, s, key) ==
    LET dv == h[d].v.items[key]
        sv == h[s].v.items[key]
        dt == TypeOf(h, dv)
        st == TypeOf(h, sv)
        c == deepcopy(h, sv)
    IN
    IF dt = "list" /\ st = "list"
    THEN [h |-> [c.h EXCEPT ![dv.v].v = @ \o c.h[c.v.v].v], err |-> NoErr]
    ELSE IF dt = "set" /\ st = "set"
    THEN [h |-> [c.h EXCEPT ![dv.v].v =
                    @ \cup {e \in c.h[c.v.v].v : ~ \E f \in @ : PyEq(f, e)}],
          err |-> NoErr]
    ELSE IF dt = "tuple" /\ st = "tuple"
    THEN [h |-> SetItem(c.h, d, key, Tuple(dv.v \o c.v.v)), err |-> NoErr]
    ELSE handle_merge_replace(h, d, s, key)

handle_merge_additive(h, d, s, key) ==
    LET dv == h[d].v.items[key]
        sv == h[s].v.items[key]
        dt == TypeOf(h, dv)
        st == TypeOf(h, sv)
        c == deepcopy(h, sv)
    IN
    IF dt \in ListTypes /\ st \in ListTypes
    THEN \* list.extend: the elements of the copy are appended to the object
         [h |-> [c.h EXCEPT ![dv.v].v = @ \o c.h[c.v.v].v], err |-> NoErr]
    ELSE IF dt = "set" /\ st = "set"
    THEN \* set.update: an element equal to one already there is not added
         [h |-> [c.h EXCEPT ![dv.v].v =
                    @ \cup {e \in c.h[c.v.v].v : ~ \E f \in @ : PyEq(f, e)}],
          err |-> NoErr]
    ELSE IF dt = "tuple" /\ st = "tuple"
    THEN [h |-> SetItem(c.h, d, key, Tuple(dv.v \o c.v.v)), err |-> NoErr]
    ELSE handle_merge_replace(h, d, s, key)

\* _handle_merge: a handler is [fn, arg], arg the strategy= that partial binds
handle_merge ==
    [REPLACE |-> [fn |-> "_handle_merge_replace", arg |-> ""],
     ADDITIVE |-> [fn |-> "_handle_merge_additive", arg |-> ""],
     TYPESAFE |-> [fn |-> "_handle_merge_typesafe", arg |-> "REPLACE"],
     TYPESAFE_REPLACE |-> [fn |-> "_handle_merge_typesafe", arg |-> "REPLACE"],
     TYPESAFE_ADDITIVE |-> [fn |-> "_handle_merge_typesafe", arg |-> "ADDITIVE"]]

\* not isinstance(destination[key], type(source[key])): a subtype passes
TypesDifferIsinstance(h, d, s, key) ==
    LET dt == TypeOf(h, h[d].v.items[key])
        st == TypeOf(h, h[s].v.items[key])
    IN ~ \/ dt = st
         \/ dt = "bool" /\ st = "int"
         \/ dt = "MyList" /\ st = "list"
         \/ dt = "OrderedDict" /\ st = "dict"

\* type(destination[key]) is not type(source[key])
TypesDiffer(h, d, s, key) ==
    TypeOf(h, h[d].v.items[key]) # TypeOf(h, h[s].v.items[key])

\* the handler run before the types are compared
handle_merge_typesafe_late(h, d, s, key, strat) ==
    LET r == IF strat = "REPLACE" THEN handle_merge_replace(h, d, s, key)
             ELSE handle_merge_additive(h, d, s, key)
    IN IF TypesDiffer(h, d, s, key)
       THEN [h |-> r.h,
             err |-> TypeMismatch(key, TypeOf(h, h[d].v.items[key]),
                                  TypeOf(h, h[s].v.items[key]))]
       ELSE r

RECURSIVE Call(_, _, _, _, _)

handle_merge_typesafe(h, d, s, key, strat) ==
    IF TypesDiffer(h, d, s, key)
    THEN [h |-> h,
          err |-> TypeMismatch(key, TypeOf(h, h[d].v.items[key]),
                               TypeOf(h, h[s].v.items[key]))]
    ELSE Call(handle_merge[strat], h, d, s, key)

\* handler(dst, src, key); an object that is no function cannot be called
Call(handler, h, d, s, key) ==
    CASE handler.fn = "_handle_merge_replace" -> handle_merge_replace(h, d, s, key)
      [] handler.fn = "_handle_merge_additive" -> handle_merge_additive(h, d, s, key)
      [] handler.fn = "_handle_merge_typesafe" ->
            handle_merge_typesafe(h, d, s, key, handler.arg)
      [] OTHER -> [h |-> h, err |-> NotCallable]

\* _handle_merge.get(strategy, Strategy.REPLACE): the default is the enum
\* member Strategy.REPLACE itself, not the handler registered for it
GetHandler(strat) ==
    IF strat \in DOMAIN handle_merge THEN handle_merge[strat]
    ELSE [fn |-> "Strategy.REPLACE", arg |-> ""]

\* the loop body without the recursion into two Mappings
BranchNoRecurse(h, d, s, key) ==
    IF key \notin DOMAIN h[d].v.items THEN "insert"
    ELSE IF PyEq(Abs(h, h[d].v.items[key]), Abs(h, h[s].v.items[key])) THEN "same"
    ELSE "handle"

\* the loop body without the test for equal values
BranchNoSame(h, d, s, key) ==
    IF key \notin DOMAIN h[d].v.items THEN "insert"
    ELSE IF TypeOf(h, h[d].v.items[key]) \in MappingTypes
            /\ TypeOf(h, h[s].v.items[key]) \in MappingTypes
    THEN "recurse"
    ELSE "handle"

\* the loop body taking values of different types for unequal
BranchTypeFirst(h, d, s, key) ==
    IF key \notin DOMAIN h[d].v.items THEN "insert"
    ELSE LET dv == h[d].v.items[key]
             sv == h[s].v.items[key]
         IN IF TypeOf(h, dv) \in MappingTypes /\ TypeOf(h, sv) \in MappingTypes
            THEN "recurse"
            ELSE IF TypeOf(h, dv) = TypeOf(h, sv) /\ PyEq(Abs(h, dv), Abs(h, sv)) THEN "same"
            ELSE "handle"

\* which branch of the loop body of _deepmerge runs for key
Branch(h, d, s, key) ==
    IF key \notin DOMAIN h[d].v.items THEN "insert"
    ELSE LET dv == h[d].v.items[key]
             sv == h[s].v.items[key]
         IN IF TypeOf(h, dv) \in MappingTypes /\ TypeOf(h, sv) \in MappingTypes
            THEN "recurse"
            ELSE IF PyEq(Abs(h, dv), Abs(h, sv)) THEN "same"
            ELSE "handle"

----------------------------------------------------------------------------
\* The inputs: destinations and sources as trees.

D0 == Dict(<<>>, <<>>)
D1(k1, v1) == Dict(<<k1>>, k1 :> v1)
D2(k1, v1, k2, v2) == Dict(<<k1, k2>>, (k1 :> v1) @@ (k2 :> v2))
AsOrdered(t) == [k |-> "OrderedDict", v |-> t.v]

Ints == {PyInt(n) : n \in 1..MaxInt}

\* the values that are no Mapping
Leaves ==
    Ints \cup
    { PyTrue,
      List(<<PyInt(1)>>), List(<<List(<<PyInt(2)>>)>>), MyList(<<PyInt(1)>>),
      SetOf({PyInt(1)}), SetOf({PyInt(2)}),
      Tuple(<<PyInt(1)>>), Tuple(<<List(<<PyInt(2)>>)>>) }

\* one shared key "a" with any two values, before or after a second key
FlatVals == Leaves \cup {D1("a", PyInt(1)), AsOrdered(D1("b", PyInt(2)))}
FlatInputs ==
    { [D |-> d, S |-> <<s>>] :
        d \in {D1("a", x) : x \in FlatVals} \cup {D2("b", PyInt(1), "a", x) : x \in FlatVals},
        s \in {D1("a", y) : y \in FlatVals}
              \cup {D2("b", PyInt(2), "a", y) : y \in FlatVals}
              \cup {D2("a", y, "b", PyInt(2)) : y \in FlatVals} }

\* a Mapping under "a" on both sides
InnerVals == Ints \cup {PyTrue, List(<<PyInt(1)>>), List(<<List(<<PyInt(2)>>)>>)}
Inner ==
    {D0} \cup {D1(k, x) : k \in {"a", "b"}, x \in InnerVals}
         \cup {D2("a", x, "b", y) : x \in InnerVals, y \in InnerVals}
NestedInputs ==
    { [D |-> D1("a", d), S |-> <<D1("a", s)>>] :
        d \in Inner, s \in Inner \cup {AsOrdered(t) : t \in Inner} }

\* Mappings three deep
DeepInputs ==
    { [D |-> D1("a", D1("a", D2("b", PyInt(1), "a", x))),
       S |-> <<D1("a", D1("a", D2("b", PyInt(2), "a", y)))>>] :
        x \in InnerVals, y \in InnerVals }

\* no source, and two sources
FoldVals ==
    Ints \cup {PyTrue, List(<<PyInt(1)>>), List(<<List(<<PyInt(2)>>)>>), SetOf({PyInt(1)}),
               D1("a", PyInt(1)), D1("b", List(<<List(<<PyInt(2)>>)>>))}
FoldInputs ==
    { [D |-> d, S |-> <<>>] : d \in {D0} \cup {D1("a", x) : x \in FoldVals} }
    \cup
    { [D |-> d, S |-> <<D1("a", y), D1("a", z)>>] :
        d \in {D0} \cup {D1("a", x) : x \in FoldVals}, y \in FoldVals, z \in FoldVals }

Inputs == FlatInputs \cup NestedInputs \cup DeepInputs \cup FoldInputs

----------------------------------------------------------------------------
\* merge(destination, *sources, strategy=...)

Top == stack[Len(stack)]
\* the key the innermost loop is at
CurKey == heap[Top.src].v.order[Top.i]
Running == pc = "run" /\ stack # <<>>
InLoop == Running /\ Top.i <= Len(heap[Top.src].v.order)

Step(op, key) ==
    [op |-> op, key |-> key, d |-> Top.dst, s |-> Top.src,
     dv |-> IF key \in DOMAIN heap[Top.dst].v.items
            THEN Abs(heap, heap[Top.dst].v.items[key]) ELSE NoVal,
     sv |-> Abs(heap, heap[Top.src].v.items[key]),
     depth |-> Len(stack)]
NoStep(op) == [op |-> op, key |-> "", d |-> 0, s |-> 0, dv |-> NoVal, sv |-> NoVal, depth |-> 0]

Advance == [stack EXCEPT ![Len(stack)].i = @ + 1]

Init ==
    \E inp \in Inputs, st \in Strategy \cup {Unregistered} :
        LET d == alloc(<<>>, inp.D)
            ss == allocSeq(d.h, inp.S)
        IN /\ heap = ss.h
           /\ stack = <<>>
           /\ dest = d.v.v
           /\ srcs = [i \in DOMAIN ss.v |-> ss.v[i].v]
           /\ si = 0
           /\ acc = d.v.v
           /\ pc = "run"
           /\ err = NoErr
           /\ ret = 0
           /\ out = NoVal
           /\ strategy = st
           /\ inD = inp.D
           /\ inS = inp.S
           /\ last = NoStep("call")
           /\ mutated = FALSE

\* the sources taken right to left
SourceAtReversed(ss, i) == ss[Len(ss) + 1 - i]

\* the source reduce hands over in its i-th step
SourceAt(ss, i) == ss[i]

\* reduce(_deepmerge, sources, destination): the next source
Reduce ==
    /\ pc = "run" /\ stack = <<>> /\ si < Len(srcs)
    /\ stack' = <<[dst |-> acc, src |-> SourceAt(srcs, si + 1), i |-> 1]>>
    /\ si' = si + 1
    /\ last' = NoStep("reduce")
    /\ UNCHANGED <<heap, dest, srcs, acc, pc, err, ret, out, strategy, inD, inS, mutated>>

\* return reduce(...): no source is left
Return ==
    /\ pc = "run" /\ stack = <<>> /\ si = Len(srcs)
    /\ pc' = "done"
    /\ ret' = acc
    /\ out' = Abs(heap, Ref(acc))
    /\ last' = NoStep("return")
    /\ UNCHANGED <<heap, stack, dest, srcs, si, acc, err, strategy, inD, inS, mutated>>

\* the address _deepmerge returns
Returned(frame) == frame.dst

\* return dst: back in the caller's loop, or in reduce
DeepmergeReturn ==
    /\ Running /\ ~InLoop
    /\ stack' = IF Len(stack) = 1 THEN <<>>
                ELSE [SubSeq(stack, 1, Len(stack) - 1) EXCEPT ![Len(stack) - 1].i = @ + 1]
    /\ acc' = IF Len(stack) = 1 THEN Returned(Top) ELSE acc
    /\ last' = NoStep("end")
    /\ UNCHANGED <<heap, dest, srcs, si, pc, err, ret, out, strategy, inD, inS, mutated>>

\* dst[key] = src[key]
InsertAlias(h, d, s, key) == SetItem(h, d, key, h[s].v.items[key])

\* dst[key] = deepcopy(src[key])
InsertCopy(h, d, s, key) ==
    LET c == deepcopy(h, h[s].v.items[key]) IN SetItem(c.h, d, key, c.v)

\* the key exists only in src
DeepmergeInsert ==
    /\ InLoop /\ Branch(heap, Top.dst, Top.src, CurKey) = "insert"
    /\ heap' = InsertCopy(heap, Top.dst, Top.src, CurKey)
    /\ stack' = Advance
    /\ last' = Step("insert", CurKey)
    /\ UNCHANGED <<dest, srcs, si, acc, pc, err, ret, out, strategy, inD, inS, mutated>>

\* _deepmerge(dst[key], src[key])
DeepmergeRecurse ==
    /\ InLoop /\ Branch(heap, Top.dst, Top.src, CurKey) = "recurse"
    /\ stack' = Append(stack, [dst |-> heap[Top.dst].v.items[CurKey].v,
                               src |-> heap[Top.src].v.items[CurKey].v,
                               i |-> 1])
    /\ last' = Step("recurse", CurKey)
    /\ UNCHANGED <<heap, dest, srcs, si, acc, pc, err, ret, out, strategy, inD, inS, mutated>>

\* pass
DeepmergeSame ==
    /\ InLoop /\ Branch(heap, Top.dst, Top.src, CurKey) = "same"
    /\ stack' = Advance
    /\ last' = Step("same", CurKey)
    /\ UNCHANGED <<heap, dest, srcs, si, acc, pc, err, ret, out, strategy, inD, inS, mutated>>

\* _handle_merge.get(strategy, Strategy.REPLACE)(dst, src, key); an exception
\* unwinds every _deepmerge, reduce and merge
DeepmergeHandle ==
    /\ InLoop /\ Branch(heap, Top.dst, Top.src, CurKey) = "handle"
    /\ LET r == Call(GetHandler(strategy), heap, Top.dst, Top.src, CurKey)
       IN /\ heap' = r.h
          /\ err' = r.err
          /\ pc' = IF r.err = NoErr THEN pc ELSE "raised"
          /\ stack' = IF r.err = NoErr THEN Advance ELSE <<>>
    /\ last' = Step("handle", CurKey)
    /\ UNCHANGED <<dest, srcs, si, acc, ret, out, strategy, inD, inS, mutated>>

\* after the call, the caller changes an object of a source: a new element
\* in a list or a set, a new value under "a" in a dict
SourceObjects == UNION {Reach(heap, Ref(srcs[i])) : i \in DOMAIN srcs}
Mutation(h, a) ==
    IF h[a].k \in MappingTypes THEN SetItem(h, a, "a", PyInt(0))
    ELSE IF h[a].k \in ListTypes THEN [h EXCEPT ![a].v = Append(@, PyInt(0))]
    ELSE [h EXCEPT ![a].v = @ \cup {PyInt(0)}]
MutateSource ==
    /\ pc = "done" /\ ~mutated
    /\ \E a \in SourceObjects : heap' = Mutation(heap, a)
    /\ mutated' = TRUE
    /\ last' = NoStep("mutate")
    /\ UNCHANGED <<stack, dest, srcs, si, acc, pc, err, ret, out, strategy, inD, inS>>

Next ==
    \/ Reduce
    \/ Return
    \/ DeepmergeReturn
    \/ DeepmergeInsert
    \/ DeepmergeRecurse
    \/ DeepmergeSame
    \/ DeepmergeHandle
    \/ MutateSource

Spec == Init /\ [][Next]_vars

----------------------------------------------------------------------------
\* merge(d, s, strategy=strat) as a function of trees: [v |-> what the call
\* leaves in d, err |-> the exception it raises or NoErr].

TreeSet(d, key, value) ==
    [d EXCEPT !.v = [order |-> IF key \in DOMAIN @.items THEN @.order
                               ELSE Append(@.order, key),
                     items |-> (key :> value) @@ @.items]]

\* the handler of strat on the values dv, sv of one key
TreeHandle(strat, dv, sv, key) ==
    LET additive ==
            IF dv.k \in ListTypes /\ sv.k \in ListTypes
            THEN [k |-> dv.k, v |-> dv.v \o sv.v]
            ELSE IF dv.k = "set" /\ sv.k = "set"
            THEN SetOf(dv.v \cup {e \in sv.v : ~ \E f \in dv.v : PyEq(f, e)})
            ELSE IF dv.k = "tuple" /\ sv.k = "tuple"
            THEN Tuple(dv.v \o sv.v)
            ELSE sv
    IN CASE strat = "REPLACE" -> [v |-> sv, err |-> NoErr]
         [] strat = "ADDITIVE" -> [v |-> additive, err |-> NoErr]
         [] strat \in {"TYPESAFE", "TYPESAFE_REPLACE", "TYPESAFE_ADDITIVE"} ->
                IF dv.k # sv.k
                THEN [v |-> dv, err |-> TypeMismatch(key, dv.k, sv.k)]
                ELSE [v |-> IF strat = "TYPESAFE_ADDITIVE" THEN additive ELSE sv,
                      err |-> NoErr]
         [] OTHER -> [v |-> dv, err |-> NotCallable]

\* _deepmerge(d, s) from the keys `order` of s on; an exception ends the loop
\* and leaves what was done
RECURSIVE TreeMerge(_, _, _, _)
TreeMerge(d, s, order, strat) ==
    IF order = <<>> THEN [v |-> d, err |-> NoErr]
    ELSE LET key == Head(order)
             sv == s.v.items[key]
             dv == d.v.items[key]
             r == IF key \notin DOMAIN d.v.items
                  THEN [v |-> TreeSet(d, key, sv), err |-> NoErr]
                  ELSE IF dv.k \in MappingTypes /\ sv.k \in MappingTypes
                  THEN LET c == TreeMerge(dv, sv, sv.v.order, strat)
                       IN [v |-> TreeSet(d, key, c.v), err |-> c.err]
                  ELSE IF PyEq(dv, sv) THEN [v |-> d, err |-> NoErr]
                  ELSE LET c == TreeHandle(strat, dv, sv, key)
                       IN [v |-> IF c.err = NoErr THEN TreeSet(d, key, c.v) ELSE d,
                           err |-> c.err]
         IN IF r.err # NoErr THEN r ELSE TreeMerge(r.v, s, Tail(order), strat)

\* merge(d, s, strategy=strat)
Merge1(d, s, strat) == TreeMerge(d, s, s.v.order, strat)

\* merge(merge(d, s1, strategy=strat), s2, strategy=strat): the outer call is
\* not made when the inner one raises
Merge2(d, s1, s2, strat) ==
    LET r == Merge1(d, s1, strat)
    IN IF r.err # NoErr THEN r ELSE Merge1(r.v, s2, strat)

----------------------------------------------------------------------------
\* What the claims speak of.

TypesafeStrategies == {"TYPESAFE", "TYPESAFE_REPLACE", "TYPESAFE_ADDITIVE"}

\* the destination now
DestNow == Abs(heap, Ref(dest))
\* the loop body has just run for last.key, a key of both dst and src
SharedKeyStep == last.op \in {"recurse", "same", "handle"}
BothContainers == last.dv.k \in MappingTypes /\ last.sv.k \in MappingTypes
\* ... whose values were unequal and not both Containers
ConflictStep == SharedKeyStep /\ ~BothContainers /\ ~PyEq(last.dv, last.sv)
\* ... whose values were equal and not both Containers
EqualStep == SharedKeyStep /\ ~BothContainers /\ PyEq(last.dv, last.sv)
\* the value now under the key of the last step, and the object it is in
ValueNow == Abs(heap, heap[last.d].v.items[last.key])

\* the ADDITIVE combination of two values
AdditiveOf(dv, sv) ==
    IF dv.k \in ListTypes /\ sv.k \in ListTypes THEN [k |-> dv.k, v |-> dv.v \o sv.v]
    ELSE IF dv.k = "set" /\ sv.k = "set" THEN SetOf(dv.v \cup sv.v)
    ELSE IF dv.k = "tuple" /\ sv.k = "tuple" THEN Tuple(dv.v \o sv.v)
    ELSE sv

\* the reference recursive merge of C6
RECURSIVE RefMerge(_, _)
RefMerge(d, s) ==
    LET dk == DOMAIN d.v.items
        sk == DOMAIN s.v.items
    IN [k |-> d.k,
        v |-> [order |-> d.v.order \o SelectSeq(s.v.order, LAMBDA key : key \notin dk),
               items |-> [key \in dk \cup sk |->
                    IF key \notin sk THEN d.v.items[key]
                    ELSE IF key \notin dk THEN s.v.items[key]
                    ELSE IF d.v.items[key].k \in MappingTypes
                            /\ s.v.items[key].k \in MappingTypes
                    THEN RefMerge(d.v.items[key], s.v.items[key])
                    ELSE s.v.items[key]]]]

----------------------------------------------------------------------------
\* C1: with a strategy that is not registered, a shared key with unequal
\* values that are not both Containers is resolved as under REPLACE, the
\* key then holding a copy of the source's value, and nothing is raised.
C1_UnregisteredFallsBackToReplace ==
    (strategy = Unregistered /\ ConflictStep) =>
        /\ pc # "raised"
        /\ err = NoErr
        /\ ValueNow = last.sv

\* C2: under TYPESAFE, TYPESAFE_REPLACE and TYPESAFE_ADDITIVE, at any depth, a
\* shared key with unequal values that are not both Containers raises the
\* TypeError carrying the key and the two types when the concrete types of
\* the two values differ, and is otherwise resolved as under REPLACE
\* (TYPESAFE, TYPESAFE_REPLACE) or ADDITIVE (TYPESAFE_ADDITIVE).
C2_TypesafeChecksConcreteType ==
    (strategy \in TypesafeStrategies /\ ConflictStep) =>
        IF last.dv.k # last.sv.k
        THEN /\ pc = "raised"
             /\ err = TypeMismatch(last.key, last.dv.k, last.sv.k)
        ELSE /\ pc # "raised"
             /\ err = NoErr
             /\ ValueNow = IF strategy = "TYPESAFE_ADDITIVE"
                           THEN AdditiveOf(last.dv, last.sv) ELSE last.sv

\* a bool against an unequal int, two Mappings down
C2_Witness ==
    /\ strategy = "TYPESAFE" /\ ConflictStep /\ last.depth = 2
    /\ last.dv = PyTrue /\ last.sv = PyInt(2)
    /\ pc = "raised"

\* C3: once merge has returned, no object reachable from the destination is
\* an object reachable from a source, and the destination is as merge
\* returned it whatever the caller then does to a source.
C3_NonAliasing ==
    pc = "done" =>
        /\ Reach(heap, Ref(dest)) \cap SourceObjects = {}
        /\ DestNow = out

\* ADDITIVE has appended a list of the source to a list of the destination,
\* and the caller has then changed a source
C3_Witness ==
    /\ pc = "done" /\ mutated /\ strategy = "ADDITIVE"
    /\ inD = D1("a", List(<<PyInt(1)>>))
    /\ inS = <<D1("a", List(<<List(<<PyInt(2)>>)>>))>>
    /\ out = D1("a", List(<<PyInt(1), List(<<PyInt(2)>>)>>))

\* C4: while merge runs, when it has returned and when it has raised, every
\* source is as it was passed in.
C4_SourcesNotMutated ==
    ~mutated => \A i \in DOMAIN srcs : Abs(heap, Ref(srcs[i])) = inS[i]

\* the second source has been merged into a Mapping that came from the first
C4_Witness ==
    /\ pc = "done" /\ ~mutated
    /\ inD = D0
    /\ inS = <<D1("a", D1("a", PyInt(1))), D1("a", D1("b", List(<<List(<<PyInt(2)>>)>>)))>>
    /\ out = D1("a", D2("a", PyInt(1), "b", List(<<List(<<PyInt(2)>>)>>)))

\* C5: under ADDITIVE a shared key whose values are not both Containers
\* holds, after its step: the destination's value when the two were equal;
\* else destination's elements then source's for two lists, the union for two
\* sets, the concatenation for two tuples, and the source's value otherwise.
C5_Additive ==
    (strategy = "ADDITIVE" /\ SharedKeyStep /\ ~BothContainers) =>
        /\ pc # "raised"
        /\ ValueNow = IF PyEq(last.dv, last.sv) THEN last.dv
                      ELSE AdditiveOf(last.dv, last.sv)

\* a list of a Sequence subtype extended by a list
C5_Witness ==
    /\ strategy = "ADDITIVE" /\ ConflictStep
    /\ last.dv = MyList(<<PyInt(1)>>) /\ last.sv = List(<<List(<<PyInt(2)>>)>>)
    /\ ValueNow = MyList(<<PyInt(1), List(<<PyInt(2)>>)>>)

\* C6: under REPLACE with one source merge returns, and what it returns is
\* deeply equal to the reference recursive merge of destination and source.
C6_ReplaceIsReferenceMerge ==
    (strategy = "REPLACE" /\ Len(inS) = 1) =>
        /\ pc # "raised"
        /\ pc = "done" => /\ PyEq(out, RefMerge(inD, inS[1]))
                          /\ DOMAIN out.v.items = DOMAIN inD.v.items \cup DOMAIN inS[1].v.items

\* a Mapping merged key by key, with a key of each kind
C6_Witness ==
    /\ strategy = "REPLACE" /\ pc = "done"
    /\ inD = D1("a", D2("a", PyInt(1), "b", List(<<PyInt(1)>>)))
    /\ inS = <<D1("a", D1("b", PyInt(2)))>>
    /\ out = D1("a", D2("a", PyInt(1), "b", PyInt(2)))

\* C7: merge(D, S1, S2) ends as merge(merge(D, S1), S2) does, in the same
\* destination or the same exception (merge(D, S1) being what the function
\* of trees says), and merge returns the destination object.
C7_LeftToRightFold ==
    /\ pc = "done" => ret = dest
    /\ (pc \in {"done", "raised"} /\ ~mutated) =>
          /\ Len(inS) = 1 => [v |-> DestNow, err |-> err] = Merge1(inD, inS[1], strategy)
          /\ Len(inS) = 2 => [v |-> DestNow, err |-> err]
                                = Merge2(inD, inS[1], inS[2], strategy)

\* two sources whose order decides the result
C7_Witness ==
    /\ pc = "done" /\ ~mutated /\ strategy = "ADDITIVE"
    /\ inD = D1("a", List(<<PyInt(1)>>))
    /\ inS = <<D1("a", PyInt(2)), D1("a", List(<<List(<<PyInt(2)>>)>>))>>
    /\ out = D1("a", List(<<List(<<PyInt(2)>>)>>))

\* C8: when a TYPESAFE* merge has raised, the destination holds what was
\* merged before the offending key and nothing else: the keys before it at
\* every level and the earlier sources remain, the offending key has the
\* value it had, and no later key or source has been applied.
C8_RaiseLeavesPartialMerge ==
    (pc = "raised" /\ strategy \in TypesafeStrategies) =>
        /\ stack = <<>>
        /\ ValueNow = last.dv
        /\ Len(inS) = 1 => DestNow = Merge1(inD, inS[1], strategy).v
        /\ Len(inS) = 2 => DestNow = Merge2(inD, inS[1], inS[2], strategy).v

\* "b" was merged, then "a" raised two Mappings down
C8_Witness ==
    /\ pc = "raised" /\ strategy = "TYPESAFE_ADDITIVE"
    /\ inD = D1("a", D1("a", D2("b", PyInt(1), "a", PyInt(1))))
    /\ inS = <<D1("a", D1("a", D2("b", PyInt(2), "a", List(<<PyInt(1)>>))))>>
    /\ DestNow = D1("a", D1("a", D2("b", PyInt(2), "a", PyInt(1))))

\* C9: for each of the five strategies, merging D into a copy of D raises
\* nothing and leaves the copy as it was.
C9_NoOpMergeIdempotent ==
    (strategy \in Strategy /\ Len(inS) = 1 /\ inS[1] = inD) =>
        /\ pc # "raised"
        /\ DestNow = inD

\* ADDITIVE over equal lists in a Mapping
C9_Witness ==
    /\ pc = "done" /\ strategy = "ADDITIVE"
    /\ inD = D1("a", D2("a", PyInt(1), "b", List(<<PyInt(1)>>)))
    /\ inS = <<inD>>

\* C10: under the TYPESAFE* strategies a shared key whose two values are
\* equal keeps the destination's value and raises nothing though the types
\* differ, and a shared key whose two values are Containers of different
\* types is recursed into and raises nothing.
C10_TypeCheckOnlyInHandler ==
    (strategy \in TypesafeStrategies /\ SharedKeyStep /\ last.dv.k # last.sv.k) =>
        /\ EqualStep => (pc # "raised" /\ ValueNow = last.dv)
        /\ BothContainers => /\ pc # "raised"
                             /\ last.op = "recurse"
                             /\ Top.dst = heap[last.d].v.items[last.key].v

\* True against 1 inside a dict merged with an OrderedDict
C10_Witness ==
    /\ strategy = "TYPESAFE_ADDITIVE" /\ EqualStep /\ last.depth = 2
    /\ last.dv = PyTrue /\ last.sv = PyInt(1)
    /\ inD.v.items["a"].k = "dict" /\ inS[1].v.items["a"].k = "OrderedDict"

====
